---- MODULE Spec2Model ----
(***************************************************************************)
(* Model of `impl Add<Duration> for OffsetDateTime` (src/src/time_03.rs).  *)
(*                                                                         *)
(* A point in time is [date |-> [year, month, day], time |-> ticks,        *)
(* offset |-> seconds]; the time of day is counted in ticks of half a      *)
(* second, so that a fractional `second` field (1.5) is representable.     *)
(* A duration field is an f32: [k |-> "fin", h |-> n] is the value n/2     *)
(* (so n = 3 is 1.5) and [k |-> "huge", h |-> 1 or -1] is a value of       *)
(* magnitude at least 2^63 (f32::MAX, infinity), on which every            *)
(* float-to-integer cast saturates.  Huge values are drawn for the year    *)
(* and month fields only: what the code does with them is decided by       *)
(* lines 19-23 of the source.                                              *)
(*                                                                         *)
(* Integer overflow of `+` panics in a build with overflow checks (debug)  *)
(* and wraps in one without (release): `build` is either.                  *)
(***************************************************************************)
EXTENDS Integers, Sequences, FiniteSets

VARIABLES start, self, rhs, out, applied, build

vars == <<start, self, rhs, out, applied, build>>

----------------------------------------------------------------------------
(* Bounds of the model.                                                    *)

\* month fields 0..MaxMonthDelta are drawn for the first addition
MaxMonthDelta == 13
\* month fields 0..MaxChainMonths are drawn for the second addition of a chain
MaxChainMonths == 3

----------------------------------------------------------------------------
(* Widths and ranges.                                                      *)

I32Max == 2147483647
I32Min == -I32Max - 1
\* a u32 is kept as two 16-bit limbs [hi, lo]: its value is hi * 2^16 + lo
LimbBase == 2 ^ 16
U32MaxLimbs == [hi |-> LimbBase - 1, lo |-> LimbBase - 1]
\* time::Date::MIN.year() and time::Date::MAX.year() (default features)
MIN_YEAR == -9999
MAX_YEAR == 9999
\* ticks (half seconds) in a day, an hour and a minute
TicksPerDay == 2 * 86400
TicksPerHour == 2 * 3600
TicksPerMinute == 2 * 60

----------------------------------------------------------------------------
(* f32 duration fields and the `as` casts.                                 *)

Whole(n) == [k |-> "fin", h |-> 2 * n]
Halves(n) == [k |-> "fin", h |-> n]
PosHuge == [k |-> "huge", h |-> 1]
NegHuge == [k |-> "huge", h |-> -1]
Zero == Whole(0)

\* truncation toward zero of the value h/2
TruncHalves(h) == IF h >= 0 THEN h \div 2 ELSE -((-h) \div 2)

\* `x as u32`: truncates, saturates at 0 and at u32::MAX
AsU32(f) ==
    IF f.k = "huge"
    THEN IF f.h > 0 THEN U32MaxLimbs ELSE [hi |-> 0, lo |-> 0]
    ELSE LET t == TruncHalves(f.h)
         IN  IF t < 0 THEN [hi |-> 0, lo |-> 0]
             ELSE [hi |-> t \div LimbBase, lo |-> t % LimbBase]

\* `x as i32`: truncates, saturates at i32::MIN and i32::MAX
AsI32(f) ==
    IF f.k = "huge"
    THEN IF f.h > 0 THEN I32Max ELSE I32Min
    ELSE TruncHalves(f.h)

\* `x as i64`: truncates (the model draws finite day/hour/minute fields only)
AsI64(f) == TruncHalves(f.h)

----------------------------------------------------------------------------
(* Fixed-width arithmetic: [ovf |-> the exact result does not fit,         *)
(* val |-> the wrapped result].                                            *)

\* u32 + u32, the left operand below 2^16
AddU32(small, b) ==
    LET lo == b.lo + small
        c  == lo \div LimbBase
        hi == b.hi + c
    IN  [ovf |-> hi >= LimbBase,
         val |-> [hi |-> hi % LimbBase, lo |-> lo % LimbBase]]

\* u32 / 12 and u32 % 12 (2^16 = 12 * 5461 + 4); both fit an i32
DivU32By12(a) == a.hi * (LimbBase \div 12) + (a.hi * (LimbBase % 12) + a.lo) \div 12
ModU32By12(a) == (a.hi * (LimbBase % 12) + a.lo) % 12

\* i32 + i32
AddI32(a, b) ==
    IF b >= 0 /\ a > I32Max - b
    THEN [ovf |-> TRUE, val |-> (a - I32Max - 1) + (b - I32Max - 1)]
    ELSE IF b < 0 /\ a < I32Min - b
    THEN [ovf |-> TRUE, val |-> (a + I32Max + 1) + (b + I32Max + 1)]
    ELSE [ovf |-> FALSE, val |-> a + b]

----------------------------------------------------------------------------
(* The calendar of the time crate.                                         *)

is_leap_year(y) == y % 4 = 0 /\ (y % 25 # 0 \/ y % 16 = 0)

\* time::Month::length
MonthLength(m, y) ==
    IF m \in {4, 6, 9, 11} THEN 30
    ELSE IF m = 2 THEN (IF is_leap_year(y) THEN 29 ELSE 28)
    ELSE 31

\* day count of a calendar date (days since 1970-01-01)
DayNumber(y, m, d) ==
    LET yy  == IF m <= 2 THEN y - 1 ELSE y
        era == yy \div 400
        yoe == yy - era * 400
        mp  == (m + 9) % 12
        doy == (153 * mp + 2) \div 5 + d - 1
        doe == yoe * 365 + yoe \div 4 - yoe \div 100 + doy
    IN  era * 146097 + doe - 719468

\* the calendar date of a day count
DateOfDayNumber(z) ==
    LET zz  == z + 719468
        era == zz \div 146097
        doe == zz - era * 146097
        yoe == (doe - doe \div 1460 + doe \div 36524 - doe \div 146096) \div 365
        doy == doe - (365 * yoe + yoe \div 4 - yoe \div 100)
        mp  == (5 * doy + 2) \div 153
        d   == doy - (153 * mp + 2) \div 5 + 1
        m   == IF mp < 10 THEN mp + 3 ELSE mp - 9
        y   == yoe + era * 400
    IN  [year |-> IF m <= 2 THEN y + 1 ELSE y, month |-> m, day |-> d]

DateMin == [year |-> MIN_YEAR, month |-> 1, day |-> 1]
DateMax == [year |-> MAX_YEAR, month |-> 12, day |-> 31]
DayNumberOf(date) == DayNumber(date.year, date.month, date.day)

\* Date::from_calendar_date: Ok iff the year is in range and the day exists
FromCalendarDateOk(y, m, d) ==
    /\ y >= MIN_YEAR /\ y <= MAX_YEAR
    /\ d >= 1 /\ d <= MonthLength(m, y)

\* Date::saturating_add(time::Duration::days(n))
DateSaturatingAdd(date, n) ==
    LET z == DayNumberOf(date) + n
    IN  IF z < DayNumberOf(DateMin) THEN DateMin
        ELSE IF z > DayNumberOf(DateMax) THEN DateMax
        ELSE DateOfDayNumber(z)

\* OffsetSaturatingAdd with the saturated value taken as UTC
OffsetSaturatingAdd_UtcAtRangeEnd(date, time, offset, delta) ==
    LET t    == time + delta
        z    == DayNumberOf(date) + t \div TicksPerDay
    IN  IF z < DayNumberOf(DateMin)
        THEN [date |-> DateMin, time |-> 0, offset |-> 0]
        ELSE IF z > DayNumberOf(DateMax)
        THEN [date |-> DateMax, time |-> TicksPerDay - 1, offset |-> 0]
        ELSE [date |-> DateOfDayNumber(z), time |-> t % TicksPerDay, offset |-> offset]

\* PrimitiveDateTime::new(date, time).assume_offset(offset).saturating_add(delta),
\* delta in ticks; the last tick of the day stands for Time::MAX
OffsetSaturatingAdd(date, time, offset, delta) ==
    LET t    == time + delta
        z    == DayNumberOf(date) + t \div TicksPerDay
    IN  IF z < DayNumberOf(DateMin)
        THEN [date |-> DateMin, time |-> 0, offset |-> offset]
        ELSE IF z > DayNumberOf(DateMax)
        THEN [date |-> DateMax, time |-> TicksPerDay - 1, offset |-> offset]
        ELSE [date |-> DateOfDayNumber(z), time |-> t % TicksPerDay, offset |-> offset]

----------------------------------------------------------------------------
(* fn add(self, rhs: Duration) -> Self, statement by statement.            *)

\* TotalMonths0Based without the conversion of the month to 0-based
TotalMonths0Based_OneBased(p, d) == AddU32(p.date.month, AsU32(d.month))

\* line 19-20: month_0_based + rhs.month as u32
TotalMonths0Based(p, d) == AddU32(p.date.month - 1, AsU32(d.month))

\* line 22: year + rhs.year as i32 + (total_months_0_based / 12) as i32
NewYear(p, d, total) ==
    LET s1 == AddI32(p.date.year, AsI32(d.year))
        s2 == AddI32(s1.val, DivU32By12(total))
    IN  [ovf |-> s1.ovf \/ s2.ovf, val |-> s2.val]

\* line 23: (total_months_0_based % 12 + 1) as u8
NewMonthU8(total) == ModU32By12(total) + 1

\* line 25: time::Month::try_from(new_month_u8) is Ok
MonthTryFromOk(m) == m >= 1 /\ m <= 12

\* ClampDay without the comparison: the day is always the last of the month
ClampDay_Unconditional(day, new_month, new_year) == MonthLength(new_month, new_year)

\* lines 32-35: clamp day to the length of the new month
ClampDay(day, new_month, new_year) ==
    LET max_day_in_month == MonthLength(new_month, new_year)
    IN  IF day > max_day_in_month THEN max_day_in_month ELSE day

\* lines 47-49: hours(rhs.hour as i64) + minutes(rhs.minute as i64)
\*              + seconds_f32(rhs.second), in ticks
TimeDuration(d) ==
    AsI64(d.hour) * TicksPerHour + AsI64(d.minute) * TicksPerMinute + d.second.h

NoDate == [year |-> 0, month |-> 0, day |-> 0]

\* The outcome of add: path is the way it left the function ("sum" is the
\* normal return of line 55), pt the point returned (none on a panic), ym the
\* date produced by the year/month stage (NoDate when none was), wrapped
\* whether an integer addition wrapped around.
Outcome(path, pt, ym, wrapped) ==
    [path |-> path, pt |-> pt, ym |-> ym, wrapped |-> wrapped]

add(p, d, b) ==
    LET total     == TotalMonths0Based(p, d)
        newYear   == NewYear(p, d, total.val)
        new_year  == newYear.val
        new_month == NewMonthU8(total.val)
        day       == ClampDay(p.date.day, new_month, new_year)
        wrapped   == total.ovf \/ newYear.ovf
        date_with_ym_added == [year |-> new_year, month |-> new_month, day |-> day]
        final_date == DateSaturatingAdd(date_with_ym_added, AsI64(d.day))
    IN  IF b = "debug" /\ wrapped
        THEN Outcome("panic", p, NoDate, FALSE)
        ELSE IF ~MonthTryFromOk(new_month)
        THEN Outcome("fallback_month", p, NoDate, wrapped)
        ELSE IF ~FromCalendarDateOk(new_year, new_month, day)
        THEN Outcome("fallback_date", p, NoDate, wrapped)
        ELSE Outcome("sum",
                     OffsetSaturatingAdd(final_date, p.time, p.offset, TimeDuration(d)),
                     date_with_ym_added, wrapped)

----------------------------------------------------------------------------
(* The inputs drawn.                                                       *)

Builds == {"debug", "release"}

Years == {MIN_YEAR, 2023, 2024, 2096, MAX_YEAR}
Days == {1, 15, 28, 29, 30, 31}
Dates ==
    {[year |-> y, month |-> m, day |-> d] :
        <<y, m, d>> \in {t \in Years \X (1..12) \X Days : t[3] <= MonthLength(t[2], t[1])}}

\* <<time of day in ticks, offset in seconds>>: 10:00:00 and 10:30:00 UTC,
\* 23:59:59.5 +02:00, 00:00:00 -05:00
Clocks == {<<10 * TicksPerHour, 0>>, <<10 * TicksPerHour + 30 * TicksPerMinute, 0>>,
           <<TicksPerDay - 1, 7200>>, <<0, -18000>>}

Points ==
    {[date |-> dt, time |-> c[1], offset |-> c[2]] : dt \in Dates, c \in Clocks}

Dur(y, mo, d, h, mi, s) ==
    [year |-> y, month |-> mo, day |-> d, hour |-> h, minute |-> mi, second |-> s]

ZeroDuration == Dur(Zero, Zero, Zero, Zero, Zero, Zero)

YearMonthDurations ==
    {Dur(y, Whole(m), Zero, Zero, Zero, Zero) :
        y \in {Whole(-1), Zero, Whole(1), Whole(4)}, m \in 0..MaxMonthDelta}
    \cup {Dur(y, Zero, Zero, Zero, Zero, Zero) : y \in {PosHuge, NegHuge, Whole(8000), Halves(3)}}
    \cup {Dur(y, m, Zero, Zero, Zero, Zero) :
            y \in {Zero, Whole(1)}, m \in {Whole(-1), Whole(-13), Halves(3), PosHuge, NegHuge}}

DayDurations ==
    {Dur(Zero, Zero, d, Zero, Zero, Zero) :
        d \in {Whole(1), Whole(-1), Whole(30), Whole(366), Halves(3)}}

TimeDurations ==
    {Dur(Zero, Zero, Zero, h, Zero, Zero) :
        h \in {Whole(1), Halves(3), Whole(14), Whole(25), Whole(-1)}}
    \cup {Dur(Zero, Zero, Zero, Zero, mi, Zero) : mi \in {Whole(1), Halves(1), Whole(90)}}
    \cup {Dur(Zero, Zero, Zero, Zero, Zero, s) : s \in {Whole(1), Halves(3), Whole(-1)}}
    \cup {Dur(Zero, Zero, Zero, Whole(1), Whole(1), Halves(3))}

MixedDurations ==
    {Dur(Whole(1), Whole(1), Whole(1), Whole(1), Whole(1), Whole(1)),
     Dur(Zero, Whole(1), Whole(1), Zero, Zero, Zero),
     Dur(Whole(1), Zero, Whole(1), Zero, Zero, Zero),
     Dur(Zero, Whole(1), Whole(1), Whole(14), Zero, Zero),
     Dur(Whole(1), Whole(1), Whole(-1), Zero, Zero, Zero),
     Dur(Whole(8000), Whole(1), Whole(1), Zero, Zero, Zero),
     Dur(Zero, PosHuge, Whole(1), Zero, Zero, Zero)}

Durations == YearMonthDurations \cup DayDurations \cup TimeDurations \cup MixedDurations

\* a second addition is drawn after a first of these, from these
ChainDurations ==
    {Dur(Zero, Whole(m), Zero, Zero, Zero, Zero) : m \in 0..MaxChainMonths}
    \cup {Dur(Zero, PosHuge, Zero, Zero, Zero, Zero)}

----------------------------------------------------------------------------
(* The state machine: a value `start`, to which durations are added.       *)

NoOutcome == Outcome("none", [date |-> NoDate, time |-> 0, offset |-> 0], NoDate, FALSE)

Init ==
    /\ start \in Points
    /\ build \in Builds
    /\ self = start
    /\ rhs = ZeroDuration
    /\ out = NoOutcome
    /\ applied = <<>>

\* self + d, self being start or the point the previous addition returned
AddDuration(d) ==
    /\ \/ applied = <<>> /\ d \in Durations
       \/ Len(applied) = 1 /\ applied[1] \in ChainDurations /\ d \in ChainDurations
             /\ out.path # "panic"
    /\ self' = IF applied = <<>> THEN start ELSE out.pt
    /\ rhs' = d
    /\ out' = add(self', d, build)
    /\ applied' = Append(applied, d)
    /\ UNCHANGED <<start, build>>

Next == \E d \in Durations \cup ChainDurations : AddDuration(d)

Spec == Init /\ [][Next]_vars

----------------------------------------------------------------------------
(* The contract in the specification's own terms.                          *)

Min(a, b) == IF a <= b THEN a ELSE b

\* divisible by 4, except centuries not divisible by 400
GregorianLeap(y) == y % 4 = 0 /\ (y % 100 # 0 \/ y % 400 = 0)
DaysInMonth(y, m) ==
    CASE m \in {1, 3, 5, 7, 8, 10, 12} -> 31
      [] m \in {4, 6, 9, 11} -> 30
      [] m = 2 -> IF GregorianLeap(y) THEN 29 ELSE 28

IsHuge(f) == f.k = "huge"
IsWhole(f) == f.k = "huge" \/ f.h % 2 = 0
IsNegative(f) == f.h < 0
Val(f) == f.h \div 2

Added == applied # <<>>
Returned == out.path \in {"sum", "fallback_month", "fallback_date"}
YearMonthOnly(d) ==
    d.day = Zero /\ d.hour = Zero /\ d.minute = Zero /\ d.second = Zero
DayOnly(d) ==
    d.year = Zero /\ d.month = Zero /\ d.hour = Zero /\ d.minute = Zero /\ d.second = Zero
TimeOnly(d) == d.year = Zero /\ d.month = Zero /\ d.day = Zero

MinPoint(offset) == [date |-> DateMin, time |-> 0, offset |-> offset]
MaxPoint(offset) == [date |-> DateMax, time |-> TicksPerDay - 1, offset |-> offset]

\* the sub-day delta of the fields as given, in ticks
DeltaAsGiven(d) ==
    d.hour.h * (TicksPerHour \div 2) + d.minute.h * (TicksPerMinute \div 2) + d.second.h

\* Sections 4.1 to 4.3 for whole year, month and day fields: years and months
\* with floored carry and the day clamped to the month reached (4.1), then the
\* days, the date saturating (4.2), then the sub-day delta, the point
\* saturating (4.3).  A huge field is beyond every representable date.
ExactYear(p, d) == p.date.year + Val(d.year) + ((p.date.month - 1) + Val(d.month)) \div 12
ExactMonth(p, d) == (((p.date.month - 1) + Val(d.month)) % 12) + 1
HugeSign(d) ==
    IF IsHuge(d.year) THEN d.year.h ELSE IF IsHuge(d.month) THEN d.month.h ELSE 0
\* the day count after 4.1 and 4.2, before saturation
ExactDay(p, d) ==
    LET y == ExactYear(p, d)
        m == ExactMonth(p, d)
    IN  DayNumber(y, m, Min(p.date.day, DaysInMonth(y, m))) + Val(d.day)
SaturatedDay(p, d) ==
    IF HugeSign(d) > 0 THEN DayNumberOf(DateMax)
    ELSE IF HugeSign(d) < 0 THEN DayNumberOf(DateMin)
    ELSE IF ExactDay(p, d) > DayNumberOf(DateMax) THEN DayNumberOf(DateMax)
    ELSE IF ExactDay(p, d) < DayNumberOf(DateMin) THEN DayNumberOf(DateMin)
    ELSE ExactDay(p, d)
ExactSum(p, d) ==
    LET t == p.time + DeltaAsGiven(d)
        z == SaturatedDay(p, d) + t \div TicksPerDay
    IN  IF z < DayNumberOf(DateMin) THEN MinPoint(p.offset)
        ELSE IF z > DayNumberOf(DateMax) THEN MaxPoint(p.offset)
        ELSE [date |-> DateOfDayNumber(z), time |-> t % TicksPerDay, offset |-> p.offset]
\* the sum of 4.1 to 4.3 without saturation is outside the representable range
SumOutOfRange(p, d) ==
    \/ HugeSign(d) # 0
    \/ LET z == ExactDay(p, d) + (p.time + DeltaAsGiven(d)) \div TicksPerDay
       IN  z < DayNumberOf(DateMin) \/ z > DayNumberOf(DateMax)

----------------------------------------------------------------------------
(* C1, C7, C9: claims the code satisfies.                                  *)

\* C1: adding a duration whose only non-zero fields are year and month
\* returns a point whose day of month is min(D, daysInMonth(Y', M')), (Y', M')
\* the year and month of the result: the day is never rolled into the next
\* month.  Feb-29 plus one year is Feb-28 of the next year, and Jan-31 plus
\* one month in a non-leap year is Feb-28.
C1_MonthEndClamping ==
    (Added /\ Returned /\ YearMonthOnly(rhs)) =>
        /\ out.pt.date.day =
               Min(self.date.day, DaysInMonth(out.pt.date.year, out.pt.date.month))
        /\ ((self.date.month = 2 /\ self.date.day = 29
               /\ rhs.year = Whole(1) /\ rhs.month = Zero)
              => out.pt.date = [year |-> self.date.year + 1, month |-> 2, day |-> 28])
        /\ ((self.date.month = 1 /\ self.date.day = 31 /\ ~GregorianLeap(self.date.year)
               /\ rhs.year = Zero /\ rhs.month = Whole(1))
              => out.pt.date = [year |-> self.date.year, month |-> 2, day |-> 28])

\* a year/month addition returned a day of month below the one it started from
C1_Witness ==
    /\ Added /\ out.path = "sum" /\ YearMonthOnly(rhs)
    /\ out.pt.date.day < self.date.day
    /\ out.pt.date.month # self.date.month

\* C7: the result carries the offset of the input, on the normal path, on the
\* fallback path and when saturated; and when only the day field is non-zero
\* the time of day of the result is that of the input too.
C7_OffsetAndTimeFrame ==
    (Added /\ Returned) =>
        /\ out.pt.offset = self.offset
        /\ (DayOnly(rhs) => out.pt.time = self.time)

\* a day-only addition moved the date of a point whose offset is not UTC
C7_Witness ==
    /\ Added /\ out.path = "sum" /\ DayOnly(rhs)
    /\ out.pt.date # self.date
    /\ self.offset # 0 /\ self.time # 0

\* C9: adding the all-zero duration returns the input, also when it is added
\* again to the result.
C9_ZeroIdentity ==
    (Added /\ \A i \in 1..Len(applied) : applied[i] = ZeroDuration) =>
        /\ Returned
        /\ out.pt = self
        /\ out.pt = start

\* the zero duration was added twice to the last representable date
C9_Witness ==
    /\ applied = <<ZeroDuration, ZeroDuration>>
    /\ out.pt.date = DateMax
    /\ out.pt.time = TicksPerDay - 1

----------------------------------------------------------------------------
(* C2 to C6, C8, C10: claims as stated, which the code does not satisfy.   *)

WholeNonNegative(f) == IsWhole(f) /\ ~IsNegative(f)
WholeDate(d) == IsWhole(d.year) /\ IsWhole(d.month) /\ IsWhole(d.day)
WholeClock(d) == IsWhole(d.hour) /\ IsWhole(d.minute)

\* C2: for whole dy, dm >= 0 and total = (M - 1) + dm, the date produced by
\* the year/month stage has Y' = Y + dy + floor(total / 12) and
\* M' = (total mod 12) + 1.  (A field of 2^32 or more is a whole number whose
\* exact Y' is above every year an i32 holds.)
C2_YearMonthCarry ==
    (Added /\ out.path = "sum" /\ WholeNonNegative(rhs.year) /\ WholeNonNegative(rhs.month)) =>
        /\ ~IsHuge(rhs.year) /\ ~IsHuge(rhs.month)
        /\ out.ym.year = ExactYear(self, rhs)
        /\ out.ym.month = ExactMonth(self, rhs)
        /\ out.ym.month \in 1..12

\* C3: for every duration with year/month and day fields set, the result is:
\* years and months added and the day clamped, then the day field added as
\* calendar days, then the hour/minute/second delta.
C3_StageOrder ==
    (Added /\ Returned /\ WholeDate(rhs) /\ WholeClock(rhs)
       /\ WholeNonNegative(rhs.year) /\ WholeNonNegative(rhs.month)
       /\ (rhs.year # Zero \/ rhs.month # Zero) /\ rhs.day # Zero) =>
        out.pt = ExactSum(self, rhs)

\* C4: add returns without panicking, no intermediate integer computation
\* exceeds its width, and a sum outside the representable range is returned
\* as the minimum or maximum representable point.
C4_NoPanicSaturation ==
    Added =>
        /\ out.path # "panic"
        /\ ~out.wrapped
        /\ ((WholeDate(rhs) /\ SumOutOfRange(self, rhs))
              => out.pt \in {MinPoint(self.offset), MaxPoint(self.offset)})

\* C5: neither `return self` branch of add is ever taken.
C5_FallbackUnreachable ==
    Added => out.path \notin {"fallback_month", "fallback_date"}

\* C6: a negative field is applied with its sign: a negative month moves the
\* date back by floored carry, a negative year, day, hour, minute or second
\* moves the point back.  (Stated for whole fields whose exact year is one a
\* date can have.)
C6_NegativeFields ==
    (Added /\ Returned /\ WholeDate(rhs) /\ WholeClock(rhs)
       /\ ~IsHuge(rhs.year) /\ ~IsHuge(rhs.month)
       /\ (\E f \in {rhs.year, rhs.month, rhs.day, rhs.hour, rhs.minute, rhs.second} :
              IsNegative(f))
       /\ ExactYear(self, rhs) \in MIN_YEAR..MAX_YEAR) =>
        out.pt = ExactSum(self, rhs)

\* C8: with year, month and day zero and the sum of the hour, minute and
\* second fields as given non-negative and below the time left until
\* midnight, add leaves date and offset unchanged and advances the time of
\* day by exactly that sum.
C8_PureTimeAddition ==
    (Added /\ TimeOnly(rhs)
       /\ DeltaAsGiven(rhs) >= 0 /\ DeltaAsGiven(rhs) < TicksPerDay - self.time) =>
        /\ Returned
        /\ out.pt = [date |-> self.date, time |-> self.time + DeltaAsGiven(rhs),
                     offset |-> self.offset]

\* the month-only duration of m1 + m2 months, as f32 addition gives it
MonthSum(d1, d2) ==
    IF IsHuge(d1.month) THEN d1
    ELSE IF IsHuge(d2.month) THEN d2
    ELSE Dur(Zero, Halves(d1.month.h + d2.month.h), Zero, Zero, Zero, Zero)

\* C10: for whole month counts m1, m2 >= 0, when nothing fails to construct,
\* (p + m1) + m2 has the year and month of p + (m1 + m2) and a day of month
\* not after it; the two are equal exactly when the intermediate month does
\* not clamp the day below min(p.day, daysInMonth of the final month); time of
\* day and offset are the same.
C10_MonthComposition ==
    (Len(applied) = 2 /\ out.path = "sum"
       /\ add(start, applied[1], build).path = "sum"
       /\ add(start, MonthSum(applied[1], applied[2]), build).path = "sum") =>
        LET direct == add(start, MonthSum(applied[1], applied[2]), build).pt
            chain  == out.pt
        IN  /\ chain.date.year = direct.date.year
            /\ chain.date.month = direct.date.month
            /\ chain.date.day <= direct.date.day
            /\ (chain = direct) <=>
                 (self.date.day >= Min(start.date.day,
                                       DaysInMonth(direct.date.year, direct.date.month)))
            /\ chain.time = direct.time
            /\ chain.offset = direct.offset

====
